---- MODULE Spec2Model ----
(***************************************************************************)
(* Model of critical_path_tool.py: one DigitalCircuit object (graph,       *)
(* node_types, delays), its operations parse_circuit and                   *)
(* find_critical_path, and the batch loop of main.                         *)
(*                                                                         *)
(* Node ids are numbers; None is 0.  Delays are integer                    *)
(* tenths of a time unit; float('-inf') is the value NegInf with the       *)
(* arithmetic of IEEE negative infinity (FAdd, FGt).                       *)
(* A circuit file is read as its sequence of description lines: blank and  *)
(* comment lines (lines 29-33) touch neither graph nor node_types.         *)
(***************************************************************************)
EXTENDS Integers, Sequences, FiniteSets, TLC

\* ---- bounds -------------------------------------------------------------
MaxLines == 3      \* description lines read over a whole run

\* the node ids a description may use (the properties below hold with
\* {1, 2, 3, 4} as well)
Ids == {1, 2, 3}
None == 0
NegInf == -1

\* component types a description line may carry; a node that is only
\* referenced has the type UNKNOWN, which the delay table does not know
LineTypes == {"INPUT", "OUTPUT", "ADD", "REG"}

\* input lists of a line: up to two different inputs
InputLists ==
    {<<>>} \cup {<<i>> : i \in Ids}
           \cup {<<p[1], p[2]>> : p \in {q \in Ids \X Ids : q[1] # q[2]}}

\* ---- configuration (__init__) --------------------------------------------
delays == [t \in {"ADD", "MUL", "REG", "MUX", "INPUT", "OUTPUT"} |->
             CASE t = "ADD" -> 10
               [] t = "MUL" -> 10
               [] t = "REG" -> 2
               [] t = "MUX" -> 10
               [] t = "INPUT" -> 0
               [] t = "OUTPUT" -> 0]

\* self.delays.get(node_type, 0.0)
DelayOf(t) == IF t \in DOMAIN delays THEN delays[t] ELSE 0

\* nx.DiGraph(): nodes in insertion order, successors of each node in
\* insertion order
EmptyGraph == [nodes |-> <<>>, succ |-> [n \in Ids |-> <<>>]]

\* ---- sequences -----------------------------------------------------------
Range(s) == {s[k] : k \in 1 .. Len(s)}

Contains(s, x) == \E k \in 1 .. Len(s) : s[k] = x

RECURSIVE Reverse(_)
Reverse(s) == IF s = <<>> THEN <<>> ELSE Append(Reverse(Tail(s)), Head(s))

\* ---- graph construction (networkx) ---------------------------------------
\* DiGraph.add_node: a node already present keeps its place
AddNode(g, n) ==
    IF Contains(g.nodes, n) THEN g
    ELSE [g EXCEPT !.nodes = Append(g.nodes, n)]

\* add_edge as if it recorded the edge without adding its endpoints
AddEdge_EdgeOnly(g, u, v) ==
    IF Contains(g.succ[u], v) THEN g
    ELSE [g EXCEPT !.succ[u] = Append(g.succ[u], v)]

\* DiGraph.add_edge: both endpoints are added when absent, u first
AddEdge(g, u, v) ==
    LET g2 == AddNode(AddNode(g, u), v)
    IN  IF Contains(g2.succ[u], v) THEN g2
        ELSE [g2 EXCEPT !.succ[u] = Append(g2.succ[u], v)]

RECURSIVE AddEdges(_, _, _)
AddEdges(g, ins, v) ==
    IF ins = <<>> THEN g
    ELSE AddEdges(AddEdge(g, Head(ins), v), Tail(ins), v)

Edges(g) == {e \in Ids \X Ids : Contains(g.succ[e[1]], e[2])}

\* one description line: lines 35-46
ParseInto(g, id, ins) == AddEdges(AddNode(g, id), ins, id)

SetType(nt, id, t) == [n \in DOMAIN nt \cup {id} |-> IF n = id THEN t ELSE nt[n]]

\* identify_node_type with an explicit node_types dictionary
TypeIn(nt, n) == IF n \in DOMAIN nt THEN nt[n] ELSE "UNKNOWN"


\* ---- float arithmetic on distances ---------------------------------------
\* x + d where x may be float('-inf'): -inf + d = -inf
FAdd(x, d) == IF x = NegInf THEN NegInf ELSE x + d

\* a > b where either side may be float('-inf'): -inf > -inf is False
FGt(a, b) == a # NegInf /\ (b = NegInf \/ a > b)

IsFinite(x) == x # NegInf

\* ---- nx.topological_sort (line 79) ---------------------------------------
InDegree(g, v) == Cardinality({u \in Ids : Contains(g.succ[u], v)})

RECURSIVE Children(_, _)
Children(g, gen) ==
    IF gen = <<>> THEN <<>> ELSE g.succ[Head(gen)] \o Children(g, Tail(gen))

\* one generation: every edge out of it lowers the in-degree of its child,
\* and a child that reaches zero joins the next generation
RECURSIVE Lower(_, _, _)
Lower(indeg, ch, next) ==
    IF ch = <<>> THEN [indeg |-> indeg, next |-> next]
    ELSE LET c == Head(ch)
             d == indeg[c] - 1
         IN  Lower([indeg EXCEPT ![c] = d], Tail(ch),
                   IF d = 0 THEN Append(next, c) ELSE next)

RECURSIVE Generations(_, _, _, _)
Generations(g, indeg, gen, out) ==
    IF gen = <<>> THEN [order |-> out, indeg |-> indeg]
    ELSE LET r == Lower(indeg, Children(g, gen), <<>>)
         IN  Generations(g, r.indeg, r.next, out \o gen)

\* ok = FALSE stands for nx.NetworkXUnfeasible
TopoSort(g) ==
    LET indeg0 == [n \in Ids |-> InDegree(g, n)]
        zero == SelectSeq(g.nodes, LAMBDA n : indeg0[n] = 0)
        r == Generations(g, indeg0, zero, <<>>)
    IN  [ok |-> \A n \in Ids : r.indeg[n] = 0, order |-> r.order]

\* ---- the longest-path computation (lines 84-117) -------------------------
\* lines 94-100 visit the pairs (node, successor); NextValid gives the first
\* pair at or after (i, j), or i = Len(topo) + 1 when the loops are over
RECURSIVE NextValid(_, _, _, _)
NextValid(g, topo, i, j) ==
    IF i > Len(topo) THEN [i |-> i, j |-> 1]
    ELSE IF j <= Len(g.succ[topo[i]]) THEN [i |-> i, j |-> j]
    ELSE NextValid(g, topo, i + 1, 1)

\* line 97 as if the node's delay were left out
NewDistance_NoDelay(dist, t) == dist

\* line 97
NewDistance(dist, t) == FAdd(dist, DelayOf(t))

\* line 98 as if it read new_distance >= distances[successor]
Improves_OrEqual(new, old) == ~FGt(old, new)

\* line 98
Improves(new, old) == FGt(new, old)

\* max(..., key=distances): the first candidate of greatest key
RECURSIVE MaxByDistance(_, _, _)
MaxByDistance(cands, dist, best) ==
    IF cands = <<>> THEN best
    ELSE MaxByDistance(Tail(cands), dist,
                       IF FGt(dist[Head(cands)], dist[best]) THEN Head(cands) ELSE best)

\* lines 111-114: from current back along the predecessor links
RECURSIVE WalkBack(_, _)
WalkBack(pred, current) ==
    IF current = None THEN <<>>
    ELSE <<current>> \o WalkBack(pred, pred[current])

\* lines 110-115 as if line 115 were missing
Reconstruct_NoReverse(pred, end) == WalkBack(pred, end)

\* lines 110-115
Reconstruct(pred, end) == Reverse(WalkBack(pred, end))

\* calculate_path_delay with an explicit node_types dictionary
RECURSIVE PathDelayIn(_, _)
PathDelayIn(nt, path) ==
    IF path = <<>> THEN 0
    ELSE DelayOf(TypeIn(nt, Head(path))) + PathDelayIn(nt, Tail(path))

\* ---- state ---------------------------------------------------------------
VARIABLES
    graph,          \* self.graph
    node_types,     \* self.node_types
    pc,             \* "idle", "parsing" (parse_circuit), "relax", "select" (find_critical_path)
    topo_sort,      \* locals of find_critical_path
    ti, si,         \* position of the loops of lines 94 and 96
    distances,
    predecessors,
    end_node,
    result,         \* what find_critical_path gave last, if called since the last parse_circuit
    circuit_info,   \* main: "info" while a parsed circuit awaits analysis, else "None"
    lines,          \* description lines read so far
    alone,          \* main: what a fresh DigitalCircuit holds after reading the current file only
    declared,       \* ids that had a line of their own
    referenced      \* ids that appeared as an input of a line

vars == <<graph, node_types, pc, topo_sort, ti, si, distances, predecessors,
          end_node, result, circuit_info, lines,
          alone, declared, referenced>>

locals == <<topo_sort, ti, si, distances, predecessors, end_node>>

NoResult == [kind |-> "none", path |-> <<>>, delay |-> 0, exc |-> ""]

Returned(p, d) == [kind |-> "return", path |-> p, delay |-> d, exc |-> ""]

Raised(e) == [kind |-> "raise", path |-> <<>>, delay |-> 0, exc |-> e]

\* self.identify_node_type
identify_node_type(n) == TypeIn(node_types, n)

\* self.calculate_path_delay
calculate_path_delay(path) == PathDelayIn(node_types, path)

NodeSet == Range(graph.nodes)

\* lines 85, 89-91 as if the table were kept from one call to the next
FreshDistances_Kept ==
    IF DOMAIN distances = NodeSet /\ NodeSet # {} THEN distances
    ELSE [n \in NodeSet |-> IF identify_node_type(n) = "INPUT" THEN 0 ELSE NegInf]

\* lines 85, 89-91
FreshDistances ==
    [n \in NodeSet |-> IF identify_node_type(n) = "INPUT" THEN 0 ELSE NegInf]

\* line 86
FreshPredecessors == [n \in NodeSet |-> None]

OutputNodes == SelectSeq(graph.nodes, LAMBDA n : identify_node_type(n) = "OUTPUT")

Init ==
    /\ graph = EmptyGraph
    /\ node_types = <<>>
    /\ pc = "idle"
    /\ topo_sort = <<>>
    /\ ti = 1
    /\ si = 1
    /\ distances = <<>>
    /\ predecessors = <<>>
    /\ end_node = None
    /\ result = NoResult
    /\ circuit_info = "None"
    /\ lines = 0
    /\ alone = [graph |-> EmptyGraph, node_types |-> <<>>]
    /\ declared = {}
    /\ referenced = {}

ClearLocals ==
    /\ topo_sort' = <<>>
    /\ ti' = 1
    /\ si' = 1
    /\ distances' = <<>>
    /\ predecessors' = <<>>
    /\ end_node' = None

\* ---- parse_circuit -------------------------------------------------------
Fresh == [graph |-> EmptyGraph, node_types |-> <<>>]

\* line 26 succeeds: the file is open, nothing is read yet
Open ==
    /\ pc = "idle"
    /\ pc' = "parsing"
    /\ circuit_info' = "None"
    /\ result' = NoResult
    /\ ClearLocals
    /\ UNCHANGED <<graph, node_types, lines, declared, referenced>>

\* line 26 raises FileNotFoundError: lines 50-52 return None
Missing ==
    /\ pc = "idle"
    /\ circuit_info' = "None"
    /\ result' = NoResult
    /\ ClearLocals
    /\ UNCHANGED <<graph, node_types, pc, lines, declared, referenced>>

\* The program only tests node ids for equality, so descriptions are read up
\* to renaming: ids are numbered in the order of their first appearance.
RECURSIVE InOrder(_, _)
InOrder(n, ids) ==
    IF ids = <<>> THEN TRUE
    ELSE IF Head(ids) <= n THEN InOrder(n, Tail(ids))
    ELSE Head(ids) = n + 1 /\ InOrder(n + 1, Tail(ids))

\* lines 35-46 for one well-formed line "<t> <id> <ins...>"
Line(t, id, ins) ==
    /\ pc = "parsing"
    /\ lines < MaxLines
    /\ InOrder(Len(graph.nodes), <<id>> \o ins)
    /\ graph' = ParseInto(graph, id, ins)
    /\ node_types' = SetType(node_types, id, t)
    /\ declared' = declared \cup {id}
    /\ referenced' = referenced \cup Range(ins)
    /\ lines' = lines + 1
    /\ UNCHANGED <<pc, locals, result, circuit_info>>

\* a line of one word: parts[1] raises IndexError, lines 53-55 return None
BadLine ==
    /\ pc = "parsing"
    /\ lines < MaxLines
    /\ lines' = lines + 1
    /\ pc' = "idle"
    /\ circuit_info' = "None"
    /\ UNCHANGED <<graph, node_types, declared, referenced, locals, result>>

\* end of file: line 48 returns the (non-empty) dictionary
EndOfFile ==
    /\ pc = "parsing"
    /\ pc' = "idle"
    /\ circuit_info' = "info"
    /\ UNCHANGED <<graph, node_types, declared, referenced, locals, result, lines>>

\* ---- find_critical_path --------------------------------------------------
Finish(r) ==
    /\ pc' = "idle"
    /\ result' = r

\* lines 77-91: the topological sort, then the initial tables
Start ==
    /\ pc = "idle"
    /\ circuit_info' = "None"
    /\ LET t == TopoSort(graph)
       IN  IF ~t.ok
           THEN /\ Finish(Returned(<<>>, 0))
                /\ ClearLocals
           ELSE LET p == NextValid(graph, t.order, 1, 1)
                IN  /\ topo_sort' = t.order
                    /\ distances' = FreshDistances
                    /\ predecessors' = FreshPredecessors
                    /\ ti' = p.i
                    /\ si' = p.j
                    /\ end_node' = None
                    /\ pc' = IF p.i > Len(t.order) THEN "select" ELSE "relax"
                    /\ UNCHANGED result
    /\ UNCHANGED <<graph, node_types, lines, declared, referenced>>

\* lines 95-100 for the pair (topo_sort[ti], its si-th successor)
Relax ==
    /\ pc = "relax"
    /\ LET node == topo_sort[ti]
           successor == graph.succ[node][si]
           new_distance == NewDistance(distances[node], identify_node_type(node))
           p == NextValid(graph, topo_sort, ti, si + 1)
       IN  /\ IF Improves(new_distance, distances[successor])
              THEN /\ distances' = [distances EXCEPT ![successor] = new_distance]
                   /\ predecessors' = [predecessors EXCEPT ![successor] = node]
              ELSE UNCHANGED <<distances, predecessors>>
           /\ ti' = p.i
           /\ si' = p.j
           /\ pc' = IF p.i > Len(topo_sort) THEN "select" ELSE "relax"
    /\ UNCHANGED <<graph, node_types, topo_sort, end_node, result, circuit_info, lines, alone, declared, referenced>>

\* lines 102-117; max() of an empty sequence raises ValueError
Select ==
    /\ pc = "select"
    /\ IF OutputNodes = <<>>
       THEN /\ Finish(Raised("ValueError"))
            /\ end_node' = None
       ELSE LET e == MaxByDistance(OutputNodes, distances, Head(OutputNodes))
            IN  /\ end_node' = e
                /\ Finish(Returned(Reconstruct(predecessors, e), distances[e]))
    /\ UNCHANGED <<graph, node_types, topo_sort, ti, si, distances, predecessors,
                   circuit_info, lines, alone, declared, referenced>>

\* ---- any caller of one DigitalCircuit object -----------------------------
OpenFile == Open /\ UNCHANGED alone

OpenMissing == Missing /\ UNCHANGED alone

ParseLine ==
    \E t \in LineTypes, id \in Ids, ins \in InputLists :
        Line(t, id, ins) /\ UNCHANGED alone

ParseBadLine == BadLine /\ UNCHANGED alone

ParseEnd == EndOfFile /\ UNCHANGED alone

FindStart == Start /\ UNCHANGED alone

Next ==
    \/ OpenFile
    \/ OpenMissing
    \/ ParseLine
    \/ ParseBadLine
    \/ ParseEnd
    \/ FindStart
    \/ Relax
    \/ Select

Spec == Init /\ [][Next]_vars

\* The program is one thread: a find_critical_path call that has started
\* keeps running its loops and its final lines.
FairSpec == Spec /\ WF_vars(Relax) /\ WF_vars(Select)

\* ---- main (lines 144-169) ------------------------------------------------
\* one parse_circuit per file on the one DigitalCircuit of line 145, then
\* find_critical_path once if and only if parse_circuit returned the dictionary
MainOpenFile == circuit_info = "None" /\ Open /\ alone' = Fresh

MainOpenMissing == circuit_info = "None" /\ Missing /\ alone' = Fresh

MainParseLine ==
    \E t \in LineTypes, id \in Ids, ins \in InputLists :
        /\ Line(t, id, ins)
        /\ alone' = [graph |-> ParseInto(alone.graph, id, ins),
                     node_types |-> SetType(alone.node_types, id, t)]

MainParseBadLine == BadLine /\ UNCHANGED alone

MainParseEnd == EndOfFile /\ UNCHANGED alone

MainFind == circuit_info = "info" /\ Start /\ UNCHANGED alone

MainNext ==
    \/ MainOpenFile
    \/ MainOpenMissing
    \/ MainParseLine
    \/ MainParseBadLine
    \/ MainParseEnd
    \/ MainFind
    \/ Relax
    \/ Select

MainSpec == Init /\ [][MainNext]_vars


\* ---- vocabulary of the properties ----------------------------------------
\* the pairs joined by a directed path of at least one edge
RECURSIVE Closure(_, _)
Closure(R, via) ==
    IF via = {} THEN R
    ELSE LET k == CHOOSE x \in via : TRUE
             C == Closure(R, via \ {k})
         IN  C \cup {e \in Ids \X Ids : <<e[1], k>> \in C /\ <<k, e[2]>> \in C}

Connected == Closure(Edges(graph), Ids)

HasCycle == \E n \in Ids : <<n, n>> \in Connected

IsInput(n) == n \in NodeSet /\ identify_node_type(n) = "INPUT"

IsOutput(n) == n \in NodeSet /\ identify_node_type(n) = "OUTPUT"

\* n is INPUT-typed or a directed path leads from an INPUT-typed node to n
Reachable(n) == IsInput(n) \/ \E m \in Ids : IsInput(m) /\ <<m, n>> \in Connected

\* every directed path from an INPUT-typed node to an OUTPUT-typed node of
\* an acyclic graph
IOPaths ==
    {p \in UNION {[1 .. k -> Ids] : k \in 1 .. Cardinality(Ids)} :
        /\ IsInput(p[1])
        /\ IsOutput(p[Len(p)])
        /\ \A k \in 1 .. Len(p) - 1 : <<p[k], p[k + 1]>> \in Edges(graph)}

\* find_critical_path has returned to its caller
HasReturned == pc = "idle" /\ result.kind = "return"

\* find_critical_path has returned or raised
HasEnded == pc = "idle" /\ result.kind # "none"

\* ---- C1 ------------------------------------------------------------------
\* C1: on an acyclic graph with an INPUT-typed and an OUTPUT-typed node,
\* find_critical_path returns a non-empty path that ends at the selected
\* node, an OUTPUT-typed node of greatest final distance, that starts at a
\* node without recorded predecessor, and whose consecutive nodes are joined
\* by an edge of the graph.
C1_PathShape ==
    (HasEnded /\ ~HasCycle /\ (\E n \in Ids : IsInput(n)) /\ (\E n \in Ids : IsOutput(n)))
    => /\ result.kind = "return"
       /\ result.path # <<>>
       /\ result.path[Len(result.path)] = end_node
       /\ IsOutput(end_node)
       /\ \A o \in Ids : IsOutput(o) => ~FGt(distances[o], distances[end_node])
       /\ predecessors[result.path[1]] = None
       /\ \A k \in 1 .. Len(result.path) - 1 :
            <<result.path[k], result.path[k + 1]>> \in Edges(graph)

\* C1 in full: a call that has started comes back, and what it returns on
\* such a graph has the shape above.
C1_Returns ==
    /\ [](C1_PathShape)
    /\ (pc \in {"relax", "select"}) ~> (pc = "idle")

C1_Witness ==
    /\ HasReturned
    /\ ~HasCycle
    /\ Len(result.path) = 3
    /\ IsInput(result.path[1])

\* ---- C2 ------------------------------------------------------------------
\* C2: whenever find_critical_path returns (path, totalDelay), the delay of
\* that path recomputed by calculate_path_delay equals totalDelay, also when
\* the selected OUTPUT node is not reachable from any INPUT node.
C2_DelayRecomputed ==
    HasReturned => calculate_path_delay(result.path) = result.delay

\* ---- C3 ------------------------------------------------------------------
\* C3: on an acyclic graph in which some OUTPUT-typed node is reachable from
\* some INPUT-typed node, the returned delay is the greatest sum of node
\* delays over all directed paths from an INPUT-typed to an OUTPUT-typed node.
C3_LongestDelay ==
    (HasEnded /\ ~HasCycle /\ IOPaths # {})
    => /\ result.kind = "return"
       /\ \A p \in IOPaths : PathDelayIn(node_types, p) <= result.delay
       /\ \E p \in IOPaths : PathDelayIn(node_types, p) = result.delay

\* two INPUT-to-OUTPUT paths of different delay, the longer one returned
C3_Witness ==
    /\ HasReturned
    /\ ~HasCycle
    /\ result.delay > 0
    /\ \E p \in IOPaths : PathDelayIn(node_types, p) < result.delay

\* ---- C4 ------------------------------------------------------------------
\* C4: on a graph with a directed cycle find_critical_path raises
\* CyclicGraphError to its caller and returns no path.
C4_CycleRaises ==
    (HasEnded /\ HasCycle)
    => result.kind = "raise" /\ result.exc = "CyclicGraphError"

\* ---- C5 ------------------------------------------------------------------
\* C5: on an acyclic graph without OUTPUT-typed node find_critical_path
\* fails with NoOutputNodeError and returns no path.
C5_NoOutputRaises ==
    (HasEnded /\ ~HasCycle /\ ~\E n \in Ids : IsOutput(n))
    => result.kind = "raise" /\ result.exc = "NoOutputNodeError"

\* ---- C6 ------------------------------------------------------------------
\* C6: an OUTPUT-typed node not reachable from any INPUT-typed node
\* is selected only if it is the only OUTPUT-typed node of the graph.
C6_OnlyOutput ==
    (HasReturned /\ end_node # None /\ ~Reachable(end_node))
    => Cardinality({n \in Ids : IsOutput(n)}) = 1

\* ---- C7 ------------------------------------------------------------------
\* C7: a find_critical_path call that follows a call that returned, with no
\* parse_circuit in between, gives the same path and the same delay.
C7_SameAgain ==
    [][(result.kind = "return" /\ result'.kind # "none") => result' = result]_vars

\* the second call has finished its loops on a graph whose first call gave
\* a path of several nodes
C7_Witness ==
    /\ pc = "select"
    /\ result.kind = "return"
    /\ Len(result.path) > 1

\* ---- C8 ------------------------------------------------------------------
\* C8: whatever well-formed lines parse_circuit has read, both ends of every
\* edge are nodes of the graph, and an id that only appeared as an input of
\* a line is a node of type UNKNOWN.
C8_NoDanglingEdge ==
    /\ \A e \in Edges(graph) : e[1] \in NodeSet /\ e[2] \in NodeSet
    /\ \A n \in referenced \ declared :
         n \in NodeSet /\ identify_node_type(n) = "UNKNOWN"

C8_Witness ==
    /\ pc = "idle"
    /\ circuit_info = "info"
    /\ referenced \ declared # {}

\* ---- C9 ------------------------------------------------------------------
\* C9: during the relaxation loop a node that no INPUT-typed node reaches
\* has distance negative infinity and is nobody's predecessor; after the
\* loop the nodes of finite distance are exactly the INPUT-typed nodes and
\* the nodes reachable from them.
C9_UnreachableStaysInfinite ==
    /\ pc \in {"relax", "select"}
       => \A n \in NodeSet :
            ~Reachable(n)
            => distances[n] = NegInf /\ \A m \in NodeSet : predecessors[m] # n
    /\ pc = "select"
       => \A n \in NodeSet : IsFinite(distances[n]) <=> Reachable(n)

\* after the loop: an unreachable node with a successor, beside a node that
\* was reached through an edge
C9_Witness ==
    /\ pc = "select"
    /\ \E n \in NodeSet : ~Reachable(n) /\ graph.succ[n] # <<>>
    /\ \E n \in NodeSet : predecessors[n] # None

\* ---- C10 -----------------------------------------------------------------
\* C10: in main the graph that find_critical_path analyses for a file holds
\* exactly the nodes, edges and types of that file's description.
C10_OwnDescriptionOnly ==
    (pc \in {"relax", "select"} \/ result.kind # "none")
    => /\ NodeSet = Range(alone.graph.nodes)
       /\ Edges(graph) = Edges(alone.graph)
       /\ node_types = alone.node_types

====
